---- MODULE Spec2Model ----
(***************************************************************************)
(* RevOpsKPI.py: synthetic CRM data, a null scan, the KPI aggregation, the *)
(* forecast and the orchestrated run that hands the result to the          *)
(* Streamlit dashboard.                                                    *)
(*                                                                         *)
(* Python values that a record field can hold are tagged with their type   *)
(* ([t |-> "str", v |-> ...], [t |-> "float", v |-> ...], None): the null  *)
(* scan looks at values of every type.  Floats are exact rationals         *)
(* [num, den] in lowest terms; binary rounding is not modelled.            *)
(*                                                                         *)
(* The process-global pseudo-random source is a seeded stream: rng =       *)
(* [seed, pos], the draw at a position is a fixed function of both, and    *)
(* every call of random() advances pos by one.  random() has resolution    *)
(* 1/RandomResolution; the seed is chosen at start-up.                     *)
(***************************************************************************)
EXTENDS Integers, Sequences, FiniteSets, TLC

VARIABLES
    pc,          \* position of the running operation
    rng,         \* the random module's state
    collector,   \* DataCollectorAgent: [data |-> None or the batch]
    frame,       \* Orchestrator.run's local variables (object references)
    heap,        \* objects created by run: id -> value
    st,          \* calls made on streamlit, in order
    steps,       \* the agents' operations run has called, in order
    arg,         \* argument of the operation under call (function specs)
    ret          \* its result

vars == <<pc, rng, collector, frame, heap, st, steps, arg, ret>>

-----------------------------------------------------------------------------
(* Bounds of the model *)

MaxSeed == 24
RandomResolution == 1000
MaxCount == 4
MaxLen == 2

-----------------------------------------------------------------------------
(* Python values *)

None == [t |-> "NoneType"]
S(x) == [t |-> "str", v |-> x]
F(x) == [t |-> "float", v |-> x]
IsNone(x) == x.t = "NoneType"

\* str(x) as an f-string field renders it
str(x) == IF x.t = "NoneType" THEN "None" ELSE x.v

\* dict.get(key): the value, or None when the key is absent
get(record, key) == IF key \in DOMAIN record THEN record[key] ELSE None

Range(s) == {s[i] : i \in DOMAIN s}

-----------------------------------------------------------------------------
(* Exact arithmetic *)

\* Arithmetic is defined by functions, so that an operand is evaluated once
\* where it is used.

\* Euclid's algorithm
gcd[a \in Nat, b \in Nat] == IF b = 0 THEN a ELSE gcd[b, a % b]
GCD(a, b) == gcd[a, b]

Abs(n) == IF n < 0 THEN -n ELSE n

Fractions == [num : Int, den : Int]

\* n/d in lowest terms, d > 0
rat[n \in Int, d \in Int] ==
    LET g == gcd[Abs(n), Abs(d)]
        sgn == IF d < 0 THEN -1 ELSE 1
    IN [num |-> sgn * (n \div g), den |-> sgn * (d \div g)]
Rat(n, d) == rat[n, d]

I(n) == [num |-> n, den |-> 1]

rat_add[a \in Fractions, b \in Fractions] ==
    LET l == (a.den \div gcd[a.den, b.den]) * b.den
    IN rat[a.num * (l \div a.den) + b.num * (l \div b.den), l]
RatAdd(a, b) == rat_add[a, b]

RatSub(a, b) == rat_add[a, [num |-> -b.num, den |-> b.den]]

rat_mul[a \in Fractions, b \in Fractions] ==
    LET g1 == gcd[Abs(a.num), b.den]
        g2 == gcd[Abs(b.num), a.den]
    IN rat[(a.num \div g1) * (b.num \div g2), (a.den \div g2) * (b.den \div g1)]
RatMul(a, b) == rat_mul[a, b]

ZeroDivisionError == [exc |-> "ZeroDivisionError"]
IsExc(x) == "exc" \in DOMAIN x

\* a / b on floats: raises on a zero divisor
rat_div[a \in Fractions, b \in Fractions] ==
    IF b.num = 0 THEN ZeroDivisionError
    ELSE rat_mul[a, rat[b.den, b.num]]
RatDiv(a, b) == rat_div[a, b]

\* a / b kept as the exact quotient of its operands (operands too large to
\* be brought to one fraction); raises on a zero divisor like RatDiv
Quotient(a, b) ==
    IF b.num = 0 THEN ZeroDivisionError
    ELSE [op |-> "/", left |-> a, right |-> b]

\* a * b kept as the exact product of its operands
Product(a, b) == [op |-> "*", left |-> a, right |-> b]

\* int(x) for x >= 0: truncation
int(x) == x.num \div x.den

\* n/d (n >= 0, d > 0) to the nearest integer, ties to even
RoundHalfEven(n, d) ==
    LET q == n \div d
        r == n % d
    IN IF 2 * r < d THEN q
       ELSE IF 2 * r > d THEN q + 1
       ELSE IF q % 2 = 0 THEN q ELSE q + 1

\* round(x, 2) for x >= 0
round_2[x \in Fractions] ==
    LET q == x.num \div x.den
        r == x.num % x.den
    IN rat[q * 100 + RoundHalfEven(r * 100, x.den), 100]
round2(x) == round_2[x]

-----------------------------------------------------------------------------
(* The random module *)

\* the k-th output of the stream with the given seed, in 0..RandomResolution-1
Raw(seed, k) ==
    LET x == (seed * 7919 + k * 104 + 13) % 46337
    IN ((x * x) % 46337) % RandomResolution

\* the draw at offset k from the current position
Draw(r, k) == Raw(r.seed, r.pos + k)

RngStates == [seed : Nat, pos : Nat]

Advance(r, n) == [r EXCEPT !.pos = @ + n]

\* random.random() for the draw d: d / RandomResolution in [0, 1)
random(d) == Rat(d, RandomResolution)

\* random.randint(a, b), both ends included
randint(a, b, d) == a + (d * (b - a + 1)) \div RandomResolution

\* random.choice(seq)
choice(seq, d) == seq[1 + (d * Len(seq)) \div RandomResolution]

\* random.uniform(a, b) = a + (b - a) * random()
uniform(a, b, d) == rat_add[a, rat_mul[RatSub(b, a), random(d)]]

\* random.choices(population, weights)[0] for two weights given in tenths
choices2(population, tenths, d) ==
    IF d * 10 < tenths[1] * RandomResolution THEN population[1] ELSE population[2]

-----------------------------------------------------------------------------
(* 1. SyntheticDataGenerator *)

products == <<"Product A", "Product B", "Product C">>
stages == <<"Prospecting", "Qualification", "Demo", "Proposal", "Negotiation",
            "Closed Won", "Closed Lost">>
sources == <<"Web", "Referral", "Event", "Cold Call">>
lead_statuses == <<"New", "Contacted", "Qualified", "Disqualified">>
deal_statuses == <<"Closed Won", "Closed Lost">>

\* Faker().company(): some company name, never None
companies == <<"Acme Inc", "Globex LLC", "Initech Ltd">>

\* (datetime.now() -/+ timedelta(days=n)).strftime("%Y-%m-%d"): the day is
\* kept relative to now
date_ago(n) == "now-" \o ToString(n) \o "d"
date_ahead(n) == "now+" \o ToString(n) \o "d"

LeadDraws == 4
OppDraws == 7
DealDraws == 4

\* range(count) as the 1-based positions of the resulting list
range(count) == 1 .. count

\* generate_leads with the id drawn like a reference instead of counted
generate_leads_drawn_id(r, count) ==
    [ret |-> [p \in range(count) |->
                LET i == p - 1
                    k == LeadDraws * i
                IN [id |-> S("L" \o ToString(1000 + randint(0, 99, Draw(r, k)))),
                    name |-> S(choice(companies, Draw(r, k))),
                    source |-> S(choice(sources, Draw(r, k + 1))),
                    date |-> S(date_ago(randint(0, 30, Draw(r, k + 2)))),
                    status |-> S(choice(lead_statuses, Draw(r, k + 3)))]],
     rng |-> Advance(r, LeadDraws * count)]

generate_leads(r, count) ==
    [ret |-> [p \in range(count) |->
                LET i == p - 1
                    k == LeadDraws * i
                IN [id |-> S("L" \o ToString(1000 + i)),
                    name |-> S(choice(companies, Draw(r, k))),
                    source |-> S(choice(sources, Draw(r, k + 1))),
                    date |-> S(date_ago(randint(0, 30, Draw(r, k + 2)))),
                    status |-> S(choice(lead_statuses, Draw(r, k + 3)))]],
     rng |-> Advance(r, LeadDraws * count)]

\* generate_opportunities with randint's upper end taken as excluded
generate_opportunities_wide(r, count) ==
    [ret |-> [p \in range(count) |->
                LET i == p - 1
                    k == OppDraws * i
                IN [id |-> S("O" \o ToString(2000 + i)),
                    lead_id |-> S("L" \o ToString(1000 + randint(0, 100, Draw(r, k)))),
                    amount |-> F(round2(uniform(I(1000), I(50000), Draw(r, k + 1)))),
                    product |-> S(choice(products, Draw(r, k + 2))),
                    stage |-> S(choice(stages, Draw(r, k + 3))),
                    owner |-> S("Sales-" \o ToString(randint(1, 5, Draw(r, k + 4)))),
                    created_date |-> S(date_ago(randint(0, 90, Draw(r, k + 5)))),
                    close_date |-> S(date_ahead(randint(0, 60, Draw(r, k + 6))))]],
     rng |-> Advance(r, OppDraws * count)]

generate_opportunities(r, count) ==
    [ret |-> [p \in range(count) |->
                LET i == p - 1
                    k == OppDraws * i
                IN [id |-> S("O" \o ToString(2000 + i)),
                    lead_id |-> S("L" \o ToString(1000 + randint(0, 99, Draw(r, k)))),
                    amount |-> F(round2(uniform(I(1000), I(50000), Draw(r, k + 1)))),
                    product |-> S(choice(products, Draw(r, k + 2))),
                    stage |-> S(choice(stages, Draw(r, k + 3))),
                    owner |-> S("Sales-" \o ToString(randint(1, 5, Draw(r, k + 4)))),
                    created_date |-> S(date_ago(randint(0, 90, Draw(r, k + 5)))),
                    close_date |-> S(date_ahead(randint(0, 60, Draw(r, k + 6))))]],
     rng |-> Advance(r, OppDraws * count)]

generate_closed_deals(r, count) ==
    [ret |-> [p \in range(count) |->
                LET i == p - 1
                    k == DealDraws * i
                IN [id |-> S("D" \o ToString(3000 + i)),
                    opportunity_id |-> S("O" \o ToString(2000 + randint(0, 49, Draw(r, k)))),
                    amount |-> F(round2(uniform(I(1000), I(50000), Draw(r, k + 1)))),
                    close_date |-> S(date_ago(randint(0, 30, Draw(r, k + 2)))),
                    status |-> S(choices2(deal_statuses, <<7, 3>>, Draw(r, k + 3)))]],
     rng |-> Advance(r, DealDraws * count)]

-----------------------------------------------------------------------------
(* 2. Agents *)

default_leads == 100
default_opportunities == 50
default_closed_deals == 30

\* A dict of collections keeps its insertion order: a sequence of
\* <<key, value>> items.
items(data) == data
Lookup(data, key) == (CHOOSE i \in Range(data) : i[1] = key)[2]
HasKey(data, key) == \E i \in Range(data) : i[1] = key

\* DataCollectorAgent.collect_data: the batch and the advanced random state
collect_data(r) ==
    LET opportunities_from[s \in RngStates] ==
            generate_opportunities(s, default_opportunities)
        closed_deals_from[s \in RngStates] ==
            generate_closed_deals(s, default_closed_deals)
        l == generate_leads(r, default_leads)
        o == opportunities_from[l.rng]
        d == closed_deals_from[o.rng]
    IN [ret |-> << <<"leads", l.ret>>, <<"opportunities", o.ret>>,
                   <<"closed_deals", d.ret>> >>,
        rng |-> d.rng]

\* all(...) in place of any(...)
all_none(record) == \A k \in DOMAIN record : IsNone(record[k])

\* any(v is None for v in record.values())
any_none(record) == \E k \in DOMAIN record : IsNone(record[k])

issue(dataset_name, record) ==
    "Missing data in " \o dataset_name \o " record " \o str(get(record, "id"))

\* the inner loop over one dataset's records: the issues it appends, one
\* for each record with a None value, in record order
scan_records(dataset_name, records, issues) ==
    LET flagged == SelectSeq(records, any_none)
    IN issues \o [i \in 1 .. Len(flagged) |-> issue(dataset_name, flagged[i])]

\* the outer loop over data.items()
RECURSIVE scan_items(_, _, _)
scan_items(its, i, issues) ==
    IF i > Len(its) THEN issues
    ELSE scan_items(its, i + 1, scan_records(its[i][1], its[i][2], issues))

\* DataQualityAgent.check_completeness
check_completeness(data) == scan_items(items(data), 1, <<>>)

-----------------------------------------------------------------------------
(* pandas, as far as calculate uses it *)

KeyError(key) == [exc |-> "KeyError", key |-> key]

\* pd.DataFrame(records): the columns are the keys that occur
Columns(records) == UNION {DOMAIN records[i] : i \in DOMAIN records}

\* a cell of a row; a key the row lacks is a missing value
Cell(row, col) == get(row, col)

\* df[df[col] == value]
WhereEq(records, col, value) ==
    SelectSeq(records, LAMBDA row : Cell(row, col).t = "str" /\ Cell(row, col).v = value)

\* df[~df[col].isin(values)]
WhereNotIn(records, col, values) ==
    SelectSeq(records, LAMBDA row : ~(Cell(row, col).t = "str" /\ Cell(row, col).v \in values))

\* the rows whose cell in the column is a number, not a missing value
Numbers(records, col) == SelectSeq(records, LAMBDA row : Cell(row, col).t = "float")

\* Series.sum(): missing values are skipped, an empty sum is 0; the sum of
\* rows[lo..hi] is taken by halves
sum(records, col) ==
    LET rows == Numbers(records, col)
        part[lo \in Nat, hi \in Nat] ==
            IF lo > hi THEN I(0)
            ELSE IF lo = hi THEN rows[lo][col].v
            ELSE rat_add[part[lo, (lo + hi) \div 2], part[(lo + hi) \div 2 + 1, hi]]
    IN part[1, Len(rows)]

\* Series.mean() of a column with at least one number
mean(records, col) == RatDiv(sum(records, col), I(Len(Numbers(records, col))))

-----------------------------------------------------------------------------
(* KPICalculationAgent.calculate *)

calculate(r, data) ==
    LET leads == Lookup(data, "leads")
        opps == Lookup(data, "opportunities")
        deals == Lookup(data, "closed_deals")
        won_deals == WhereEq(deals, "status", "Closed Won")
        lost_deals == WhereEq(deals, "status", "Closed Lost")
        total_deals == Len(won_deals) + Len(lost_deals)
        open_opps == WhereNotIn(opps, "stage", {"Closed Won", "Closed Lost"})
        qualified_leads == WhereEq(leads, "status", "Qualified")
    IN IF "status" \notin Columns(deals) THEN [ret |-> KeyError("status"), rng |-> r]
       ELSE IF "stage" \notin Columns(opps) THEN [ret |-> KeyError("stage"), rng |-> r]
       ELSE IF "status" \notin Columns(leads) THEN [ret |-> KeyError("status"), rng |-> r]
       ELSE IF "amount" \notin Columns(deals) THEN [ret |-> KeyError("amount"), rng |-> r]
       ELSE IF "amount" \notin Columns(opps)
            THEN [ret |-> KeyError("amount"), rng |-> Advance(r, 2)]
       ELSE [ret |->
               [monthly_revenue |-> sum(won_deals, "amount"),
                average_deal_size |->
                    IF won_deals # <<>> THEN mean(won_deals, "amount") ELSE I(0),
                win_rate |->
                    IF total_deals > 0
                    THEN RatMul(RatDiv(I(Len(won_deals)), I(total_deals)), I(100))
                    ELSE I(0),
                sales_cycle_days |-> uniform(I(14), I(45), Draw(r, 0)),
                quota_attainment |-> uniform(I(70), I(120), Draw(r, 1)),
                pipeline_value |-> sum(open_opps, "amount"),
                pipeline_velocity |->
                    RatDiv(RatMul(sum(open_opps, "amount"), Rat(7, 10)), I(30)),
                forecast_accuracy |-> uniform(I(80), I(95), Draw(r, 2)),
                stage_conversion |->
                    [Prospecting |-> uniform(Rat(2, 10), Rat(8, 10), Draw(r, 3)),
                     Qualification |-> uniform(Rat(2, 10), Rat(8, 10), Draw(r, 4)),
                     Demo |-> uniform(Rat(2, 10), Rat(8, 10), Draw(r, 5))],
                coverage_ratio |->
                    IF Len(open_opps) # 0
                    THEN RatDiv(sum(open_opps, "amount"), I(100000))
                    ELSE I(0),
                lead_conversion_rate |->
                    IF Len(leads) > 0
                    THEN RatMul(RatDiv(I(Len(qualified_leads)), I(Len(leads))), I(100))
                    ELSE I(0),
                cost_per_lead |-> uniform(I(50), I(200), Draw(r, 6)),
                mql_to_sql |-> uniform(I(20), I(50), Draw(r, 7)),
                website_conversion |-> uniform(I(1), I(5), Draw(r, 8)),
                cac |-> uniform(I(500), I(2000), Draw(r, 9))],
             rng |-> Advance(r, 10)]

\* ForecastingAgent.forecast
forecast(r, kpis) ==
    [ret |-> [next_30d_revenue |->
                  Product(kpis.monthly_revenue, uniform(Rat(9, 10), Rat(12, 10), Draw(r, 0))),
              next_30d_leads |-> int(RatMul(kpis.lead_conversion_rate, I(2)))],
     rng |-> Advance(r, 1)]


-----------------------------------------------------------------------------
(* 3. SalesDashboard *)

\* "\n".join(lines) and " ".join(lines)
RECURSIVE join(_, _)
join(sep, lines) ==
    IF lines = <<>> THEN ""
    ELSE IF Len(lines) = 1 THEN lines[1]
    ELSE lines[1] \o sep \o join(sep, Tail(lines))

\* _styled_metric(title, f"{value:format}"): one markdown card; the number is
\* kept beside its format instead of being rendered to text
styled_metric(title, value, format) ==
    [fn |-> "markdown", card |-> title, value |-> value, format |-> format]

section_header(text) == [fn |-> "markdown", h2 |-> text]

\* the ratio taken the wrong way round, CAC:LTV
cac_ltv(kpis) == Quotient(kpis.cac, RatMul(kpis.average_deal_size, I(3)))

\* the LTV:CAC ratio of the Financial Metrics section
ltv_cac(kpis) == Quotient(RatMul(kpis.average_deal_size, I(3)), kpis.cac)

\* SalesDashboard.display: the streamlit calls it makes, and the exception
\* that ended it, if any
display(kpis, forecasts, alerts, data) ==
    LET header == <<[fn |-> "set_page_config"], [fn |-> "columns", n |-> 2],
                    [fn |-> "image"], [fn |-> "markdown", h1 |-> "Sales Performance Dashboard"]>>
        errors == IF alerts # <<>> THEN <<[fn |-> "error", text |-> join("\n", alerts)]>>
                  ELSE <<>>
        sales == <<section_header("Sales Performance"), [fn |-> "columns", n |-> 5],
                   styled_metric("Monthly Revenue", kpis.monthly_revenue, "$,.0f"),
                   styled_metric("Avg Deal Size", kpis.average_deal_size, "$,.0f"),
                   styled_metric("Win Rate", kpis.win_rate, ".1f%"),
                   styled_metric("Sales Cycle", kpis.sales_cycle_days, ".1f days"),
                   styled_metric("Quota Attainment", kpis.quota_attainment, ".1f%")>>
        pipeline == <<section_header("Pipeline Health"), [fn |-> "columns", n |-> 4],
                      styled_metric("Pipeline Value", kpis.pipeline_value, "$,.0f"),
                      styled_metric("Pipeline Velocity", kpis.pipeline_velocity, "$,.0f/day"),
                      styled_metric("Forecast Accuracy", kpis.forecast_accuracy, ".1f%"),
                      styled_metric("Coverage Ratio", kpis.coverage_ratio, ".2fx")>>
        conversion == <<section_header("Stage Conversion"),
                        [fn |-> "bar_chart", rates |-> kpis.stage_conversion]>>
        leadgen == <<section_header("Lead Generation"), [fn |-> "columns", n |-> 4],
                     styled_metric("Lead Conversion", kpis.lead_conversion_rate, ".1f%"),
                     styled_metric("Cost Per Lead", kpis.cost_per_lead, "$,.0f"),
                     styled_metric("MQL to SQL", kpis.mql_to_sql, ".1f%"),
                     styled_metric("Website Conv.", kpis.website_conversion, ".1f%")>>
        financial == <<section_header("Financial Metrics"), [fn |-> "columns", n |-> 3],
                       styled_metric("Customer Acquisition Cost", kpis.cac, "$,.0f"),
                       styled_metric("LTV Estimate", RatMul(kpis.average_deal_size, I(3)), "$,.0f")>>
        before == header \o errors \o sales \o pipeline \o conversion \o leadgen \o financial
        raw == <<[fn |-> "expander"],
                 [fn |-> "dataframe", rows |-> Len(Lookup(data, "leads"))],
                 [fn |-> "dataframe", rows |-> Len(Lookup(data, "opportunities"))],
                 [fn |-> "dataframe", rows |-> Len(Lookup(data, "closed_deals"))]>>
    IN IF IsExc(ltv_cac(kpis))
       THEN [calls |-> before, raised |-> <<ltv_cac(kpis)>>]
       ELSE [calls |-> before \o <<styled_metric("LTV:CAC Ratio", ltv_cac(kpis), ".1fx")>> \o raw,
             raised |-> <<>>]

-----------------------------------------------------------------------------
(* State shared by the specifications *)

Seeds == 0 .. MaxSeed
NoFrame == [data |-> 0, quality_issues |-> 0, kpis |-> 0, forecasts |-> 0, alerts |-> 0]

Idle ==
    /\ collector = [data |-> None]
    /\ frame = NoFrame
    /\ heap = <<>>
    /\ st = <<>>
    /\ steps = <<>>

-----------------------------------------------------------------------------
(* SpecGen: the three generators called with a count *)

InitGen ==
    /\ Idle
    /\ pc = "call"
    /\ rng \in [seed : Seeds, pos : {0}]
    /\ arg \in 0 .. MaxCount
    /\ ret = <<>>

CallGenerateLeads ==
    /\ pc = "call"
    /\ LET g == generate_leads(rng, arg)
       IN ret' = g.ret /\ rng' = g.rng
    /\ pc' = "generate_leads"
    /\ UNCHANGED <<collector, frame, heap, st, steps, arg>>

CallGenerateOpportunities ==
    /\ pc = "call"
    /\ LET g == generate_opportunities(rng, arg)
       IN ret' = g.ret /\ rng' = g.rng
    /\ pc' = "generate_opportunities"
    /\ UNCHANGED <<collector, frame, heap, st, steps, arg>>

CallGenerateClosedDeals ==
    /\ pc = "call"
    /\ LET g == generate_closed_deals(rng, arg)
       IN ret' = g.ret /\ rng' = g.rng
    /\ pc' = "generate_closed_deals"
    /\ UNCHANGED <<collector, frame, heap, st, steps, arg>>

NextGen == CallGenerateLeads \/ CallGenerateOpportunities \/ CallGenerateClosedDeals

SpecGen == InitGen /\ [][NextGen]_vars
-----------------------------------------------------------------------------
(* SpecQuality: check_completeness called on hand-built collections, some  *)
(* records holding None, some without an id.  The mapping is built in the  *)
(* order collect_data builds it.                                           *)

SeqsUpTo(set, n) == UNION {[1 .. k -> set] : k \in 0 .. n}

QualityLeads ==
    {[id |-> S("L1000"), status |-> S("New")],
     [id |-> S("L1001"), status |-> None],
     [id |-> None, status |-> S("Qualified")],
     [status |-> None],
     [status |-> S("New")]}
QualityOpps ==
    {[id |-> S("O2000"), amount |-> F(I(1000))],
     [id |-> S("O2001"), amount |-> None]}
QualityDeals ==
    {[id |-> S("D3000"), status |-> S("Closed Won")],
     [id |-> S("D3001"), status |-> None]}

QualityInputs ==
    {<< <<"leads", l>>, <<"opportunities", o>>, <<"closed_deals", d>> >> :
        l \in SeqsUpTo(QualityLeads, MaxLen),
        o \in SeqsUpTo(QualityOpps, MaxLen),
        d \in SeqsUpTo(QualityDeals, MaxLen)}

InitQuality ==
    /\ Idle
    /\ pc = "call"
    /\ rng = [seed |-> 0, pos |-> 0]
    /\ arg \in QualityInputs
    /\ ret = <<>>

CallCheckCompleteness ==
    /\ pc = "call"
    /\ ret' = check_completeness(arg)
    /\ pc' = "check_completeness"
    /\ UNCHANGED <<rng, collector, frame, heap, st, steps, arg>>

NextQuality == CallCheckCompleteness

SpecQuality == InitQuality /\ [][NextQuality]_vars

-----------------------------------------------------------------------------
(* SpecCalc: calculate called on hand-built collections (every small        *)
(* combination under one random stream, and a few sample batches under      *)
(* many), and display called on the mapping it returned.                   *)

MaxPos == 9

CalcLeads == {[id |-> S("L1000"), status |-> S(x)] : x \in {"New", "Qualified"}}
CalcOpps ==
    {[id |-> S("O2000"), stage |-> S("Demo"), amount |-> F(I(1000))],
     [id |-> S("O2001"), stage |-> S("Proposal"), amount |-> F(I(4000))],
     [id |-> S("O2002"), stage |-> S("Closed Won"), amount |-> F(I(4000))]}
CalcDeals ==
    {[id |-> S("D3000"), status |-> S("Closed Won"), amount |-> F(I(1000))],
     [id |-> S("D3001"), status |-> S("Closed Won"), amount |-> F(Rat(400050, 100))],
     [id |-> S("D3002"), status |-> S("Closed Lost"), amount |-> F(I(4000))],
     [id |-> S("D3003"), status |-> S("Pending"), amount |-> F(I(1000))]}

CalcInputs ==
    {<< <<"leads", l>>, <<"opportunities", o>>, <<"closed_deals", d>> >> :
        l \in SeqsUpTo(CalcLeads, MaxLen),
        o \in SeqsUpTo(CalcOpps, MaxLen),
        d \in SeqsUpTo(CalcDeals, MaxLen)}

\* 7 won deals summing to 70000 and 3 lost deals
ExampleDeals ==
    [i \in 1 .. 10 |->
        IF i <= 7
        THEN [id |-> S("D" \o ToString(3000 + i)), status |-> S("Closed Won"),
              amount |-> F(I(6000 + 1000 * i))]
        ELSE [id |-> S("D" \o ToString(3000 + i)), status |-> S("Closed Lost"),
              amount |-> F(I(5000))]]
\* two open opportunities of 1000 and 4000, and a closed one
ExampleOpps ==
    <<[id |-> S("O2000"), stage |-> S("Demo"), amount |-> F(I(1000))],
      [id |-> S("O2001"), stage |-> S("Closed Lost"), amount |-> F(I(9000))],
      [id |-> S("O2002"), stage |-> S("Negotiation"), amount |-> F(I(4000))]>>
ExampleLeads ==
    <<[id |-> S("L1000"), status |-> S("Qualified")],
      [id |-> S("L1001"), status |-> S("Contacted")],
      [id |-> S("L1002"), status |-> S("Disqualified")]>>
LostDeals ==
    <<[id |-> S("D3000"), status |-> S("Closed Lost"), amount |-> F(I(2500))]>>

CalcSamples ==
    {<< <<"leads", ExampleLeads>>, <<"opportunities", ExampleOpps>>,
        <<"closed_deals", d>> >> : d \in {ExampleDeals, LostDeals}}

InitCalc ==
    /\ Idle
    /\ pc = "call"
    /\ \/ arg \in CalcInputs /\ rng = [seed |-> 0, pos |-> 0]
       \/ arg \in CalcSamples /\ rng \in [seed : Seeds, pos : 0 .. MaxPos]
    /\ ret = <<>>

CallCalculate ==
    /\ pc = "call"
    /\ LET c == calculate(rng, arg)
       IN ret' = c.ret /\ rng' = c.rng
    /\ pc' = "calculate"
    /\ UNCHANGED <<collector, frame, heap, st, steps, arg>>

\* display handed the mapping calculate returned, the forecast made from it
\* and no alerts; the raw data is the batch
CallDisplay ==
    /\ pc = "calculate"
    /\ ~IsExc(ret)
    /\ LET f == forecast(rng, ret)
           d == display(ret, f.ret, <<>>, arg)
       IN /\ st' = st \o d.calls
          /\ rng' = f.rng
          /\ pc' = IF d.raised = <<>> THEN "display" ELSE "raised"
    /\ UNCHANGED <<collector, frame, heap, steps, arg, ret>>

NextCalc == CallCalculate \/ CallDisplay

SpecCalc == InitCalc /\ [][NextCalc]_vars

-----------------------------------------------------------------------------
(* 4. Orchestrator.run, one agent call per step.  Objects created by run   *)
(* live in heap; a reference is the object's position, 0 is None.          *)

Init ==
    /\ Idle
    /\ pc = "run"
    /\ rng \in [seed : Seeds, pos : {0}]
    /\ arg = <<>>
    /\ ret = <<>>

Call(fn, args, result) == [fn |-> fn, args |-> args, ret |-> result]

\* data = self.collector.collect_data()
RunCollectData ==
    /\ pc = "run"
    /\ LET c == collect_data(rng)
           id == Len(heap) + 1
       IN /\ heap' = Append(heap, c.ret)
          /\ rng' = c.rng
          /\ collector' = [data |-> id]
          /\ frame' = [frame EXCEPT !.data = id]
          /\ steps' = Append(steps, Call("collect_data", <<>>, id))
    /\ pc' = "collected"
    /\ UNCHANGED <<st, arg, ret>>

\* run without its quality check
RunWithoutCheck ==
    /\ pc = "collected"
    /\ heap' = Append(heap, <<>>)
    /\ frame' = [frame EXCEPT !.quality_issues = Len(heap) + 1]
    /\ pc' = "checked"
    /\ UNCHANGED <<rng, collector, st, steps, arg, ret>>

\* quality_issues = self.quality.check_completeness(data)
RunCheckCompleteness ==
    /\ pc = "collected"
    /\ LET id == Len(heap) + 1
       IN /\ heap' = Append(heap, check_completeness(heap[frame.data]))
          /\ frame' = [frame EXCEPT !.quality_issues = id]
          /\ steps' = Append(steps, Call("check_completeness", <<frame.data>>, id))
    /\ pc' = "checked"
    /\ UNCHANGED <<rng, collector, st, arg, ret>>

\* kpis = self.kpi.calculate(data)
RunCalculate ==
    /\ pc = "checked"
    /\ LET c == calculate(rng, heap[frame.data])
           id == Len(heap) + 1
       IN /\ rng' = c.rng
          /\ IF IsExc(c.ret)
             THEN /\ pc' = "raised"
                  /\ steps' = Append(steps, Call("calculate", <<frame.data>>, 0))
                  /\ UNCHANGED <<heap, frame>>
             ELSE /\ pc' = "calculated"
                  /\ heap' = Append(heap, c.ret)
                  /\ frame' = [frame EXCEPT !.kpis = id]
                  /\ steps' = Append(steps, Call("calculate", <<frame.data>>, id))
    /\ UNCHANGED <<collector, st, arg, ret>>

\* forecasts = self.forecaster.forecast(kpis)
RunForecast ==
    /\ pc = "calculated"
    /\ LET f == forecast(rng, heap[frame.kpis])
           id == Len(heap) + 1
       IN /\ rng' = f.rng
          /\ heap' = Append(heap, f.ret)
          /\ frame' = [frame EXCEPT !.forecasts = id]
          /\ steps' = Append(steps, Call("forecast", <<frame.kpis>>, id))
    /\ pc' = "forecast"
    /\ UNCHANGED <<collector, st, arg, ret>>

\* alerts = []; if quality_issues: st.warning(" ".join(quality_issues))
RunWarn ==
    /\ pc = "forecast"
    /\ heap' = Append(heap, <<>>)
    /\ frame' = [frame EXCEPT !.alerts = Len(heap) + 1]
    /\ st' = IF heap[frame.quality_issues] # <<>>
             THEN Append(st, [fn |-> "warning",
                              text |-> join(" ", heap[frame.quality_issues])])
             ELSE st
    /\ pc' = "warned"
    /\ UNCHANGED <<rng, collector, steps, arg, ret>>

\* display handed the quality issues as its alerts
RunDisplayIssues ==
    /\ pc = "warned"
    /\ LET d == display(heap[frame.kpis], heap[frame.forecasts], heap[frame.quality_issues],
                        heap[collector.data])
       IN /\ st' = st \o d.calls
          /\ pc' = IF d.raised = <<>> THEN "done" ELSE "raised"
    /\ steps' = Append(steps, Call("display",
                                   <<frame.kpis, frame.forecasts, frame.quality_issues>>, 0))
    /\ UNCHANGED <<rng, collector, frame, heap, arg, ret>>

\* self.dashboard.display(kpis, forecasts, alerts)
RunDisplay ==
    /\ pc = "warned"
    /\ LET d == display(heap[frame.kpis], heap[frame.forecasts], heap[frame.alerts],
                        heap[collector.data])
       IN /\ st' = st \o d.calls
          /\ pc' = IF d.raised = <<>> THEN "done" ELSE "raised"
    /\ steps' = Append(steps, Call("display", <<frame.kpis, frame.forecasts, frame.alerts>>, 0))
    /\ UNCHANGED <<rng, collector, frame, heap, arg, ret>>

Next ==
    \/ RunCollectData
    \/ RunCheckCompleteness
    \/ RunCalculate
    \/ RunForecast
    \/ RunWarn
    \/ RunDisplay

Spec == Init /\ [][Next]_vars

\* run is straight-line code on one thread: a step that can be taken is taken
FairSpec == Spec /\ WF_vars(Next)
-----------------------------------------------------------------------------
(* Properties of calculate (SpecCalc) *)

\* the sum of the amounts of the records at the given positions
RECURSIVE AmountOver(_, _)
AmountOver(records, positions) ==
    IF positions = {} THEN I(0)
    ELSE LET i == CHOOSE x \in positions : TRUE
         IN RatAdd(records[i].amount.v, AmountOver(records, positions \ {i}))

ArgLeads == Lookup(arg, "leads")
ArgOpps == Lookup(arg, "opportunities")
ArgDeals == Lookup(arg, "closed_deals")
Won == {i \in DOMAIN ArgDeals : ArgDeals[i].status.v = "Closed Won"}
Lost == {i \in DOMAIN ArgDeals : ArgDeals[i].status.v = "Closed Lost"}
Open == {i \in DOMAIN ArgOpps : ArgOpps[i].stage.v \notin {"Closed Won", "Closed Lost"}}
Qualified == {i \in DOMAIN ArgLeads : ArgLeads[i].status.v = "Qualified"}

\* x = n / d for a rational x and integers n, d # 0
IsRatio(x, n, d) == x.num * d = n * x.den

WinRateRight ==
    IF Cardinality(Won) + Cardinality(Lost) = 0 THEN ret.win_rate = I(0)
    ELSE IsRatio(ret.win_rate, 100 * Cardinality(Won), Cardinality(Won) + Cardinality(Lost))

RevenueRight ==
    /\ ret.monthly_revenue = AmountOver(ArgDeals, Won)
    /\ IF Won = {} THEN ret.average_deal_size = I(0)
       ELSE RatMul(ret.average_deal_size, I(Cardinality(Won))) = ret.monthly_revenue

LeadConversionRight ==
    IF ArgLeads = <<>> THEN ret.lead_conversion_rate = I(0)
    ELSE IsRatio(ret.lead_conversion_rate, 100 * Cardinality(Qualified), Len(ArgLeads))

CoverageRight ==
    /\ ret.pipeline_value = AmountOver(ArgOpps, Open)
    /\ IF Open = {} THEN ret.coverage_ratio = I(0)
       ELSE RatMul(ret.coverage_ratio, I(100000)) = ret.pipeline_value

\* C1: for every closed-deals collection, the empty one and one without a
\* "Closed Won" or "Closed Lost" record included, calculate returns without
\* raising, and win_rate is 100 * won / (won + lost), 0 when won + lost = 0.
C1_WinRateEveryCollection ==
    (pc = "calculate" /\ ArgLeads # <<>> /\ ArgOpps # <<>>)
        => (~IsExc(ret) /\ WinRateRight)

\* C2: for every closed-deals collection, calculate returns monthly_revenue as
\* the sum of amount over exactly the "Closed Won" records and
\* average_deal_size as that sum over their number, 0 when there is none.
C2_RevenueEveryCollection ==
    (pc = "calculate" /\ ArgLeads # <<>> /\ ArgOpps # <<>>)
        => (~IsExc(ret) /\ RevenueRight)

\* C3: for every lead collection, calculate returns lead_conversion_rate 0
\* for the empty collection, without raising, and otherwise
\* 100 * qualified / total.
C3_LeadConversionEveryCollection ==
    (pc = "calculate" /\ ArgOpps # <<>> /\ ArgDeals # <<>>)
        => (~IsExc(ret) /\ LeadConversionRight)

\* C4: for every opportunity collection, calculate returns coverage_ratio 0
\* when no opportunity is open, the empty collection included, and otherwise
\* pipeline_value / 100000, pipeline_value being the sum of amount over
\* exactly the open opportunities.
C4_CoverageEveryCollection ==
    (pc = "calculate" /\ ArgLeads # <<>> /\ ArgDeals # <<>>)
        => (~IsExc(ret) /\ CoverageRight)

\* What calculate does where C1..C4 fail, and where it does not: an empty
\* collection has no columns and the column lookup raises KeyError; with
\* three non-empty collections all four aggregations are as stated.
CalculateOnEmptyRaises ==
    pc = "calculate"
        => (IsExc(ret) <=> (ArgLeads = <<>> \/ ArgOpps = <<>> \/ ArgDeals = <<>>))
CalculateOnNonEmptyRight ==
    (pc = "calculate" /\ ArgLeads # <<>> /\ ArgOpps # <<>> /\ ArgDeals # <<>>)
        => (WinRateRight /\ RevenueRight /\ LeadConversionRight /\ CoverageRight)
\* 7 won deals summing to 70000 and 3 lost; open opportunities of 1000 and 4000
CalculateOnExample ==
    (pc = "calculate" /\ ArgDeals = ExampleDeals /\ ArgOpps = ExampleOpps)
        => /\ ret.monthly_revenue = I(70000)
           /\ ret.average_deal_size = I(10000)
           /\ ret.win_rate = I(70)
           /\ ret.pipeline_value = I(5000)
           /\ ret.coverage_ratio = Rat(5, 100)
           /\ ret.pipeline_velocity = Rat(350, 3)

\* C9: for every mapping calculate returns, one with average_deal_size = 0
\* included, cac is not 0 and the LTV:CAC ratio of display,
\* (average_deal_size * 3) / cac, does not raise.
C9_LtvCacNeverDividesByZero ==
    /\ (pc \in {"calculate", "display"} /\ ~IsExc(ret))
           => (ret.cac.num # 0 /\ ~IsExc(ltv_cac(ret)))
    /\ pc # "raised"

\* display has rendered the ratio for a mapping whose average_deal_size is 0
C9_Witness ==
    /\ pc = "display"
    /\ ret.average_deal_size = I(0)
    /\ \E i \in DOMAIN st : st[i].fn = "markdown" /\ "card" \in DOMAIN st[i]
                            /\ st[i].card = "LTV:CAC Ratio"

-----------------------------------------------------------------------------
(* Properties of the generators (SpecGen) *)

GenPrefix == CASE pc = "generate_leads" -> "L"
               [] pc = "generate_opportunities" -> "O"
               [] OTHER -> "D"
GenBase == CASE pc = "generate_leads" -> 1000
             [] pc = "generate_opportunities" -> 2000
             [] OTHER -> 3000

\* C5: for every count N >= 0, each generator returns exactly N records, the
\* i-th (from 0) with the id prefix followed by base + i, the ids pairwise
\* distinct; N = 0 gives the empty sequence.
C5_GeneratedIds ==
    pc # "call" =>
        /\ DOMAIN ret = 1 .. arg
        /\ Len(ret) = arg
        /\ arg = 0 => ret = <<>>
        /\ \A p \in DOMAIN ret : ret[p].id = S(GenPrefix \o ToString(GenBase + (p - 1)))
        /\ \A p, q \in DOMAIN ret : p # q => ret[p].id.v # ret[q].id.v

\* a generator has returned MaxCount records
C5_Witness ==
    pc = "generate_opportunities" /\ arg = MaxCount /\ Len(ret) = MaxCount /\ MaxCount >= 2

-----------------------------------------------------------------------------
(* Properties of check_completeness (SpecQuality) *)

\* the records of the three named collections, each with its collection's
\* name: leads first, then opportunities, then closed deals
Flat ==
    LET tag(name) == [i \in DOMAIN Lookup(arg, name) |->
                        [name |-> name, rec |-> Lookup(arg, name)[i]]]
    IN tag("leads") \o tag("opportunities") \o tag("closed_deals")

Flagged == {i \in DOMAIN Flat : \E k \in DOMAIN Flat[i].rec : Flat[i].rec[k].t = "NoneType"}

\* the position among the flagged records
Rank(i) == Cardinality({j \in Flagged : j <= i})

IdText(rec) ==
    IF "id" \in DOMAIN rec /\ rec.id.t = "str" THEN rec.id.v ELSE "None"

-----------------------------------------------------------------------------
(* Properties of Orchestrator.run (Spec, FairSpec) *)

RunOrder == <<"collect_data", "check_completeness", "calculate", "forecast", "display">>
Called == [i \in DOMAIN steps |-> steps[i].fn]
Warnings == SelectSeq(st, LAMBDA c : c.fn = "warning")
TheCall(fn) == CHOOSE c \in Range(steps) : c.fn = fn

\* the calls so far are the first calls of the order, none of them twice;
\* the warning depends on the issue list and on nothing else; run ends only
\* after display, and then nothing more happens
RunInOrder ==
    /\ Len(Called) <= Len(RunOrder)
    /\ Called = SubSeq(RunOrder, 1, Len(Called))
    /\ pc # "raised"
    /\ pc \in {"warned", "done"}
          => (Warnings # <<>> <=> heap[frame.quality_issues] # <<>>)
    /\ pc = "done" => (Called = RunOrder /\ ~ENABLED Next)
    /\ pc # "done" => ENABLED Next

C8_RendererHandedIssueList ==
    pc = "done" =>
        TheCall("display").args =
            <<TheCall("calculate").ret, TheCall("forecast").ret,
              TheCall("check_completeness").ret>>

\* C8 as amended: display is handed the mapping calculate returned and the
\* mapping forecast returned, both made from this run's data, and a new empty
\* alerts list, which is not the list check_completeness returned.
C8_RendererHandedEmptyAlerts ==
    pc = "done" =>
        /\ TheCall("calculate").args = <<TheCall("collect_data").ret>>
        /\ TheCall("check_completeness").args = <<TheCall("collect_data").ret>>
        /\ TheCall("forecast").args = <<TheCall("calculate").ret>>
        /\ TheCall("display").args[1] = TheCall("calculate").ret
        /\ TheCall("display").args[2] = TheCall("forecast").ret
        /\ TheCall("display").args[3] # TheCall("check_completeness").ret
        /\ TheCall("display").args[3] \notin {c.ret : c \in Range(steps)}
        /\ heap[TheCall("display").args[3]] = <<>>
        /\ ~\E i \in DOMAIN st : st[i].fn = "error"

\* display has been called at the end of a run
C8_Witness ==
    /\ pc = "done"
    /\ steps[Len(steps)].fn = "display"
    /\ \E i \in DOMAIN st : st[i].fn = "bar_chart"

BatchLeads == Lookup(heap[collector.data], "leads")
BatchOpps == Lookup(heap[collector.data], "opportunities")
BatchDeals == Lookup(heap[collector.data], "closed_deals")

\* C10: in every batch of collect_data (100 leads, 50 opportunities, 30 closed
\* deals) every opportunity's lead_id is the id of a lead of the batch and
\* every closed deal's opportunity_id is the id of an opportunity of it.
C10_ReferencesResolve ==
    pc # "run" =>
        /\ Len(BatchLeads) = 100 /\ Len(BatchOpps) = 50 /\ Len(BatchDeals) = 30
        /\ \A i \in DOMAIN BatchOpps :
              \E j \in DOMAIN BatchLeads : BatchOpps[i].lead_id.v = BatchLeads[j].id.v
        /\ \A i \in DOMAIN BatchDeals :
              \E j \in DOMAIN BatchOpps : BatchDeals[i].opportunity_id.v = BatchOpps[j].id.v

\* a batch in which the last lead and the last opportunity are referred to
C10_Witness ==
    /\ pc = "collected"
    /\ \E i \in DOMAIN BatchOpps : BatchOpps[i].lead_id.v = BatchLeads[Len(BatchLeads)].id.v
    /\ \E i \in DOMAIN BatchDeals :
          BatchDeals[i].opportunity_id.v = BatchOpps[Len(BatchOpps)].id.v

====
